---- MODULE Spec2Model ----
(***************************************************************************)
(* A model of the MusicRecommender class of src/app.js (lines 1-697).      *)
(*                                                                         *)
(* Artists are records [id, genres, themes, styles, era]; the display      *)
(* fields (name, year, isCustom) never influence the engine and are left   *)
(* out.  An id is an integer: a loaded artist keeps its numeric id, the    *)
(* string id `custom_<t>` of a user-added artist is encoded CustomBase+t.  *)
(* Lists of artist objects (currentRecommendations, the return values of   *)
(* the cycles) are kept as sequences of ids, the only field the engine     *)
(* reads from them.                                                        *)
(*                                                                         *)
(* Math.random() is a pseudo random generator with hidden state: `rng` is  *)
(* that state, drawn nondeterministically at start-up, and every call      *)
(* returns rng / RngMod (a number in [0,1)) and advances the state.        *)
(* A score is kept as an integer in units of 1/RngMod.                     *)
(*                                                                         *)
(* Every method of the class is an operator from a state record to a state *)
(* record (the fields of `this`, the storage, the clock, the generator,    *)
(* the pending exception and an observation record), so that a handler is  *)
(* the composition of the methods it calls.                                *)
(***************************************************************************)
EXTENDS Integers, Sequences, FiniteSets, TLC

VARIABLES artists, userRatings, toListenList, currentRecommendations,
          recentlyShown, recommendationCount, storage, now, rng, pc, err,
          ret, obs, steps, arg

vars == <<artists, userRatings, toListenList, currentRecommendations,
          recentlyShown, recommendationCount, storage, now, rng, pc, err,
          ret, obs, steps, arg>>

---------------------------------------------------------------------------
(* Program constants *)

\* this.recommendationCount = 6
DefaultCount == 6

\* "Keep recently shown list manageable (last 18 artists)"
ColdWindowCap == 18

\* "Keep recently shown list manageable (last 24 artists)"
WindowCap == 24

\* Math.min(10, scoredArtists.length) in removeRecommendation
ReplacementTop == 10

\* encoding of the id `custom_${Date.now()}`: CustomBase + Date.now()
CustomBase == 1000

---------------------------------------------------------------------------
(* Bounds of the model *)

\* modulus of the pseudo random generator: Math.random() is k / RngMod
RngMod == 16

\* number of start-up seeds of the generator
NSeeds == 2

\* depth at which the engine gives up a runaway recursion (RangeError)
StackLimit == 3

\* number of user actions explored after start-up
MaxSteps == 2

\* number of recommendation cycles explored over the large catalog
MaxCycles == 6

\* size of the large catalog (ids 1..BigSize)
BigSize == 40

\* longest candidate list handed to selectRecommendations on its own
MaxCandidates == 11

\* largest requested count handed to selectRecommendations on its own
MaxCount == 7

\* number of user actions explored around the add-artist form
MaxCustomSteps == 6

\* number of custom artists added through the form
MaxCustoms == 2

\* number of method calls explored one after the other
MaxCalls == 2

\* the requested counts that are not positive: -MaxNegative..0
MaxNegative == 2

\* number of bands of the curated pool in the catalog of the repeated draws
ExamplePoolSize == 20

\* number of draws made with the shuffle button after the first one
MaxDraws == 4

\* size of the catalog that is a little larger than the window
MidSize == 30

\* number of user actions explored over that catalog
MaxShuffles == 6

---------------------------------------------------------------------------
(* JavaScript helpers *)

Min(a, b) == IF a < b THEN a ELSE b

Max(a, b) == IF a > b THEN a ELSE b

\* Array.prototype.slice(start, end), negative indexes counted from the end
JsSlice(seq, start, end) ==
    LET len == Len(seq)
        from == IF start < 0 THEN Max(len + start, 0) ELSE Min(start, len)
        to == IF end < 0 THEN Max(len + end, 0) ELSE Min(end, len)
    IN  SubSeq(seq, from + 1, to)

\* Array.prototype.includes on a list of ids
Includes(seq, x) == \E i \in 1..Len(seq) : seq[i] = x

\* list.some(item => item.id === id)
SomeId(seq, id) == \E i \in 1..Len(seq) : seq[i].id = id

\* the elements of a sequence
Range(seq) == {seq[i] : i \in 1..Len(seq)}

\* faulty variant: half of the count, rounded up
CeilHalf(count) == -((-5 * count) \div 10)

\* Math.ceil(count * 0.7)
Ceil07(count) == -((-7 * count) \div 10)

\* greatest common divisor, to keep a quotient in lowest terms
RECURSIVE Gcd(_, _)
Gcd(a, b) == IF b = 0 THEN a ELSE Gcd(b, a % b)

\* a / b on numbers: the quotient in lowest terms, 0/0 is NaN ([0, 0])
JsDiv(a, b) ==
    IF b = 0 THEN [num |-> IF a = 0 THEN 0 ELSE 1, den |-> 0]
    ELSE LET g == Gcd(a, b) IN
         IF g = 0 THEN [num |-> 0, den |-> 1]
         ELSE [num |-> a \div g, den |-> b \div g]

\* the number 0
Zero == [num |-> 0, den |-> 1]

\* the ascending sequence of a finite set of integers
RECURSIVE SortedSeq(_)
SortedSeq(S) ==
    IF S = {} THEN <<>>
    ELSE LET m == CHOOSE x \in S : \A y \in S : x <= y
         IN  <<m>> \o SortedSeq(S \ {m})

\* Object.keys(this.userRatings): integer keys ascending, then the custom_
\* keys in insertion order, which is ascending in their time stamp
OwnKeys(ratings) == SortedSeq(DOMAIN ratings)

---------------------------------------------------------------------------
(* Math.random() *)

\* the state of the generator after one call
NextRng(x) == (x * 5 + 3) % RngMod

\* the state of the generator after k calls
RECURSIVE RngAfter(_, _)
RngAfter(x, k) == IF k <= 0 THEN x ELSE RngAfter(NextRng(x), k - 1)

\* Math.floor(Math.random() * n), the call made in state x
RandomIndex(x, n) == (x * n) \div RngMod

---------------------------------------------------------------------------
(* Preference Aggregator: getUserPreferences *)

\* index of the first artist with this id, 0 when none:
\* this.artists.find(a => a.id == artistId)
FindArtist(arts, id) ==
    IF \E i \in 1..Len(arts) : arts[i].id = id
    THEN CHOOSE i \in 1..Len(arts) :
            arts[i].id = id /\ \A j \in 1..(i - 1) : arts[j].id # id
    ELSE 0

\* (map[tag] || 0)
WeightOf(map, tag) == IF tag \in DOMAIN map THEN map[tag] ELSE 0

\* map[tag] = (map[tag] || 0) + weight
AddWeight(map, tag, weight) ==
    [t \in DOMAIN map \cup {tag} |->
        IF t = tag THEN WeightOf(map, tag) + weight ELSE map[t]]

\* tags.forEach(tag => { map[tag] = (map[tag] || 0) + weight })
RECURSIVE AddTags(_, _, _)
AddTags(map, tags, weight) ==
    IF tags = <<>> THEN map
    ELSE AddTags(AddWeight(map, Head(tags), weight), Tail(tags), weight)

\* the preferences object before the first rating entry is folded in
EmptyPreferences ==
    [genres |-> <<>>, themes |-> <<>>, styles |-> <<>>, eras |-> <<>>,
     totalRating |-> 0, ratingCount |-> 0]

\* faulty variant: every rated artist counts 1, whatever its rating
FoldRatingCounting(acc, arts, artistId, data) ==
    LET i == FindArtist(arts, artistId) IN
    IF i = 0 THEN acc
    ELSE LET artist == arts[i]
         IN  [genres |-> AddTags(acc.genres, artist.genres, 1),
              themes |-> AddTags(acc.themes, artist.themes, 1),
              styles |-> AddTags(acc.styles, artist.styles, 1),
              eras |-> AddWeight(acc.eras, artist.era, 1),
              totalRating |-> acc.totalRating + data.rating,
              ratingCount |-> acc.ratingCount + 1]

\* faulty variant: the rating of an artist that is not found is added to the
\* genre "unknown"
FoldRatingUnknownGenre(acc, arts, artistId, data) ==
    LET i == FindArtist(arts, artistId) IN
    IF i = 0
    THEN [acc EXCEPT !.genres = AddWeight(@, "unknown", data.rating)]
    ELSE LET artist == arts[i]
             weight == data.rating
         IN  [genres |-> AddTags(acc.genres, artist.genres, weight),
              themes |-> AddTags(acc.themes, artist.themes, weight),
              styles |-> AddTags(acc.styles, artist.styles, weight),
              eras |-> AddWeight(acc.eras, artist.era, weight),
              totalRating |-> acc.totalRating + data.rating,
              ratingCount |-> acc.ratingCount + 1]

\* the body of the forEach callback over Object.entries(this.userRatings)
FoldRating(acc, arts, artistId, data) ==
    LET i == FindArtist(arts, artistId) IN
    IF i = 0 THEN acc
    ELSE LET artist == arts[i]
             weight == data.rating
         IN  [genres |-> AddTags(acc.genres, artist.genres, weight),
              themes |-> AddTags(acc.themes, artist.themes, weight),
              styles |-> AddTags(acc.styles, artist.styles, weight),
              eras |-> AddWeight(acc.eras, artist.era, weight),
              totalRating |-> acc.totalRating + data.rating,
              ratingCount |-> acc.ratingCount + 1]

RECURSIVE FoldRatings(_, _, _, _)
FoldRatings(acc, arts, ratings, keys) ==
    IF keys = <<>> THEN acc
    ELSE FoldRatings(FoldRating(acc, arts, Head(keys), ratings[Head(keys)]),
                     arts, ratings, Tail(keys))

\* faulty variant: the quotient without the guard against an empty history
AverageUnguarded(totalRating, ratingCount) == JsDiv(totalRating, ratingCount)

\* preferences.averageRating = ratingCount > 0 ? totalRating / ratingCount : 0
AverageOf(totalRating, ratingCount) ==
    IF ratingCount > 0 THEN JsDiv(totalRating, ratingCount) ELSE Zero

getUserPreferences(arts, ratings) ==
    LET acc == FoldRatings(EmptyPreferences, arts, ratings, OwnKeys(ratings))
    IN  [genres |-> acc.genres, themes |-> acc.themes,
         styles |-> acc.styles, eras |-> acc.eras,
         averageRating |-> AverageOf(acc.totalRating, acc.ratingCount)]

---------------------------------------------------------------------------
(* Scorer: calculateArtistScore *)

\* tags.forEach(tag => { score += (map[tag] || 0) * factor })
RECURSIVE TagScore(_, _, _)
TagScore(map, tags, factor) ==
    IF tags = <<>> THEN 0
    ELSE WeightOf(map, Head(tags)) * factor + TagScore(map, Tail(tags), factor)

\* the score without its random term
SimilarityScore(artist, preferences) ==
    TagScore(preferences.genres, artist.genres, 3)
    + TagScore(preferences.themes, artist.themes, 2)
    + TagScore(preferences.styles, artist.styles, 2)
    + WeightOf(preferences.eras, artist.era) * 1

\* faulty variant: the theme matches weighted like the genre matches
calculateArtistScoreThemes3(artist, preferences, x) ==
    (TagScore(preferences.genres, artist.genres, 3)
     + TagScore(preferences.themes, artist.themes, 3)
     + TagScore(preferences.styles, artist.styles, 2)
     + WeightOf(preferences.eras, artist.era) * 1) * RngMod + x * 10

\* the score in units of 1/RngMod; x is the state of the generator at the
\* call Math.random() * 10
calculateArtistScore(artist, preferences, x) ==
    SimilarityScore(artist, preferences) * RngMod + x * 10

\* unratedArtists.map(artist => ({...artist, score: ...})): the generator
\* advances by one call per artist
RECURSIVE ScoreAll(_, _, _)
ScoreAll(arts, preferences, x) ==
    IF arts = <<>> THEN <<>>
    ELSE <<[id |-> Head(arts).id,
            score |-> calculateArtistScore(Head(arts), preferences, x)]>>
         \o ScoreAll(Tail(arts), preferences, NextRng(x))

\* place e behind every element whose score is not smaller
RECURSIVE InsertByScore(_, _)
InsertByScore(sorted, e) ==
    IF sorted = <<>> THEN <<e>>
    ELSE IF Head(sorted).score >= e.score
         THEN <<Head(sorted)>> \o InsertByScore(Tail(sorted), e)
         ELSE <<e>> \o sorted

\* scoredArtists.sort((a, b) => b.score - a.score): stable, descending
RECURSIVE SortByScore(_)
SortByScore(scored) ==
    IF scored = <<>> THEN <<>>
    ELSE InsertByScore(SortByScore(SubSeq(scored, 1, Len(scored) - 1)),
                       scored[Len(scored)])

---------------------------------------------------------------------------
(* Eligibility filters *)

\* faulty variant: the rated artists are not filtered out
NeverRated(ratings, id) == FALSE

\* this.userRatings[artist.id] is truthy: the id is a key of the mapping
IsRated(ratings, id) == id \in DOMAIN ratings

\* faulty variant: the saved artists are not filtered out
NeverSaved(list, id) == FALSE

\* this.toListenList.some(item => item.id === artist.id)
IsSaved(list, id) == SomeId(list, id)

\* ids of this.artists.filter(artist => !rated && !saved), in catalog order
UnratedArtists(s) ==
    SelectSeq(s.artists,
              LAMBDA a : ~IsRated(s.userRatings, a.id)
                         /\ ~IsSaved(s.toListenList, a.id))

---------------------------------------------------------------------------
(* The recency window *)

\* faulty variant: the window is never cut back
TrimWindowOff(window, cap) == window

\* if (window.length > cap) window = window.slice(-cap)
TrimWindow(window, cap) ==
    IF Len(window) > cap THEN JsSlice(window, -cap, Len(window)) ELSE window

\* faulty variant: every id is pushed, in the window already or not
PushAll(window, ids) == window \o ids

\* faulty variant: the selected ids are not recorded
PushNone(window, ids) == window

\* ids.forEach(id => { if (!window.includes(id)) window.push(id) })
RECURSIVE PushFresh(_, _)
PushFresh(window, ids) ==
    IF ids = <<>> THEN window
    ELSE PushFresh(IF Includes(window, Head(ids)) THEN window
                   ELSE Append(window, Head(ids)),
                   Tail(ids))

---------------------------------------------------------------------------
(* Selector: selectRecommendations *)

\* remaining.splice(index, 1), index counted from 0
Splice(seq, index) ==
    SubSeq(seq, 1, index) \o SubSeq(seq, index + 2, Len(seq))

\* for (i = 0; i < randomCount && remaining.length > 0; i++) { ... }
\* returns the entries picked and the state of the generator after the loop
RECURSIVE PickRandom(_, _, _)
PickRandom(remaining, randomCount, x) ==
    IF randomCount <= 0 \/ remaining = <<>>
    THEN [picked |-> <<>>, rng |-> x]
    ELSE LET randomIndex == RandomIndex(x, Len(remaining))
             rest == PickRandom(Splice(remaining, randomIndex),
                                randomCount - 1, NextRng(x))
         IN  [picked |-> <<remaining[randomIndex + 1]>> \o rest.picked,
              rng |-> rest.rng]

\* faulty variant: no fall back to the whole scored list
FreshArtistsOnly(scoredArtists, window, count) ==
    SelectSeq(scoredArtists, LAMBDA a : ~Includes(window, a.id))

\* faulty variant: the window is not consulted
AllScoredArtists(scoredArtists, window, count) == scoredArtists

\* the pool the selection is made over: the entries outside the window when
\* there are at least count of them, else the whole scored list
AvailableArtists(scoredArtists, window, count) ==
    LET freshArtists ==
            SelectSeq(scoredArtists, LAMBDA a : ~Includes(window, a.id))
    IN  IF Len(freshArtists) >= count THEN freshArtists ELSE scoredArtists

\* the list of entries selectRecommendations returns, and the generator
SelectFrom(scoredArtists, window, n, x) ==
    LET count == Min(n, Len(scoredArtists))
        availableArtists == AvailableArtists(scoredArtists, window, count)
        topCount == Ceil07(count)
        randomCount == count - topCount
        top == JsSlice(availableArtists, 0, topCount)
        remaining == JsSlice(availableArtists, topCount, Len(availableArtists))
        rest == PickRandom(remaining, randomCount, x)
    IN  [recommendations |-> top \o rest.picked, rng |-> rest.rng]

\* the ids of a list of scored entries, in order
IdSeq(list) == [i \in 1..Len(list) |-> list[i].id]

selectRecommendations(s, scoredArtists) ==
    LET sel == SelectFrom(scoredArtists, s.recentlyShown,
                          s.recommendationCount, s.rng)
        ids == IdSeq(sel.recommendations)
    IN  [s EXCEPT
           !.recentlyShown = TrimWindow(PushFresh(s.recentlyShown, ids),
                                        WindowCap),
           !.rng = sel.rng,
           !.ret = ids,
           !.obs = [@ EXCEPT !.cycle = "personal",
                             !.windowBefore = s.recentlyShown,
                             !.scored = scoredArtists,
                             !.returned = ids]]

---------------------------------------------------------------------------
(* Cold start: getInitialBandsPool and getInitialBands *)

popularBandIds ==
    <<1, 2, 3, 11, 18, 21, 44, 43, 47, 9, 56,
      26, 33, 82,
      13, 31, 20, 27, 71, 98,
      8, 7, 22, 42, 65, 79, 88, 38, 48, 77, 107,
      6, 5, 52, 53, 78,
      12, 16, 25, 15, 19,
      39, 49, 93,
      10, 23, 54, 50, 70,
      14, 34, 28, 60, 45>>

\* popularBandIds.map(id => artists.find(a => a.id === id)).filter(a => a)
getInitialBandsPool(arts) ==
    SelectSeq(popularBandIds, LAMBDA id : FindArtist(arts, id) # 0)

\* faulty variant: the recently shown bands stay available
availableBandsAnyWindow(s) ==
    SelectSeq(getInitialBandsPool(s.artists),
              LAMBDA id : ~IsRated(s.userRatings, id)
                          /\ ~IsSaved(s.toListenList, id))

\* the pool without the rated, the saved and the recently shown
availableBands(s) ==
    SelectSeq(getInitialBandsPool(s.artists),
              LAMBDA id : ~IsRated(s.userRatings, id)
                          /\ ~IsSaved(s.toListenList, id)
                          /\ ~Includes(s.recentlyShown, id))

\* One insertion of a sort whose comparator is Math.random() - 0.5: e moves
\* left past sorted[j] while the comparator says "greater" (random > 0.5).
\* Returns the list and the generator.
RECURSIVE InsertAtRandom(_, _, _, _)
InsertAtRandom(sorted, e, j, x) ==
    IF j >= 1 /\ 2 * x > RngMod
    THEN InsertAtRandom(sorted, e, j - 1, NextRng(x))
    ELSE [list |-> SubSeq(sorted, 1, j) \o <<e>>
                   \o SubSeq(sorted, j + 1, Len(sorted)),
          rng |-> IF j >= 1 THEN NextRng(x) ELSE x]

\* [...availableBands].sort(() => Math.random() - 0.5): the order is left to
\* the engine; an insertion sort asking the comparator is what is modelled,
\* and whatever the engine does the outcome is a permutation of the input
RECURSIVE ShuffleSort(_, _)
ShuffleSort(list, x) ==
    IF Len(list) <= 1 THEN [list |-> list, rng |-> x]
    ELSE LET front == ShuffleSort(SubSeq(list, 1, Len(list) - 1), x)
         IN  InsertAtRandom(front.list, list[Len(list)],
                            Len(front.list), front.rng)

\* the draw of getInitialBands once enough bands are available
DrawInitialBands(s, available) ==
    LET shuffled == ShuffleSort(available, s.rng)
        selected == JsSlice(shuffled.list, 0, s.recommendationCount)
    IN  [s EXCEPT
           !.recentlyShown = TrimWindow(s.recentlyShown \o selected,
                                        ColdWindowCap),
           !.rng = shuffled.rng,
           !.ret = selected,
           !.obs = [@ EXCEPT !.returned = selected]]

\* getInitialBands at call depth `depth`; the recursion that never finds
\* enough bands ends in the engine's RangeError once the stack is full
RECURSIVE InitialBandsAt(_, _)
InitialBandsAt(s, depth) ==
    LET available == availableBands(s) IN
    IF Len(available) < s.recommendationCount
    THEN LET cleared == [s EXCEPT !.recentlyShown = <<>>,
                                  !.obs = [@ EXCEPT !.retries = @ + 1]]
         IN  IF depth >= StackLimit
             THEN [cleared EXCEPT !.err = "RangeError"]
             ELSE InitialBandsAt(cleared, depth + 1)
    ELSE DrawInitialBands(s, available)

getInitialBands(s) ==
    InitialBandsAt([s EXCEPT !.obs = [@ EXCEPT
                                        !.cycle = "cold",
                                        !.windowBefore = s.recentlyShown,
                                        !.retries = 0]],
                   1)

---------------------------------------------------------------------------
(* Local storage *)

\* JSON.stringify(this.userRatings): the entries in key order
StringifyRatings(ratings) ==
    LET keys == OwnKeys(ratings)
    IN  [i \in 1..Len(keys) |->
            [key |-> keys[i], rating |-> ratings[keys[i]].rating,
             timestamp |-> ratings[keys[i]].timestamp]]

\* JSON.parse of such a text: one property per key, the last entry wins
ParseRatings(text) ==
    [k \in {text[i].key : i \in 1..Len(text)} |->
        LET i == CHOOSE i \in 1..Len(text) :
                    text[i].key = k
                    /\ \A j \in (i + 1)..Len(text) : text[j].key # k
        IN  [rating |-> text[i].rating, timestamp |-> text[i].timestamp]]

\* JSON.stringify(this.toListenList): the entries in order, each one the
\* list of its properties
StringifyList(list) ==
    [i \in 1..Len(list) |->
        <<<<"id", list[i].id>>, <<"timestamp", list[i].timestamp>>>>]

\* the value of a property in the text of an object: the last one wins
PropertyOf(object, key) ==
    LET i == CHOOSE i \in 1..Len(object) :
                object[i][1] = key
                /\ \A j \in (i + 1)..Len(object) : object[j][1] # key
    IN  object[i][2]

\* JSON.parse of such a text
ParseList(text) ==
    [i \in 1..Len(text) |->
        [id |-> PropertyOf(text[i], "id"),
         timestamp |-> PropertyOf(text[i], "timestamp")]]

\* localStorage without the two items
EmptyStorage ==
    [ratings |-> [present |-> FALSE, text |-> <<>>],
     toListen |-> [present |-> FALSE, text |-> <<>>]]

\* faulty variant: only the ratings are written
saveRatingsOnly(s) ==
    [s EXCEPT !.storage.ratings =
        [present |-> TRUE, text |-> StringifyRatings(s.userRatings)]]

saveToStorage(s) ==
    [s EXCEPT !.storage =
        [ratings |-> [present |-> TRUE,
                      text |-> StringifyRatings(s.userRatings)],
         toListen |-> [present |-> TRUE,
                       text |-> StringifyList(s.toListenList)]]]

\* a present item is a non-empty string, hence truthy
loadFromStorage(s) ==
    [s EXCEPT
       !.userRatings = IF s.storage.ratings.present
                       THEN ParseRatings(s.storage.ratings.text) ELSE @,
       !.toListenList = IF s.storage.toListen.present
                        THEN ParseList(s.storage.toListen.text) ELSE @]

---------------------------------------------------------------------------
(* Recommendation cycle and replacement *)

generateRecommendations(s) ==
    LET rated == OwnKeys(s.userRatings) IN
    IF Len(rated) = 0
    THEN LET r == getInitialBands(s)
         IN  IF r.err # "none" THEN r
             ELSE [r EXCEPT !.currentRecommendations = r.ret]
    ELSE LET preferences == getUserPreferences(s.artists, s.userRatings)
             unratedArtists == UnratedArtists(s)
             scoredArtists ==
                 SortByScore(ScoreAll(unratedArtists, preferences, s.rng))
             r == selectRecommendations(
                      [s EXCEPT !.rng = RngAfter(s.rng, Len(unratedArtists))],
                      scoredArtists)
         IN  [r EXCEPT !.currentRecommendations = r.ret]

shuffleRecommendations(s) == generateRecommendations(s)

\* the replacement drawn when no rating exists: a random band of the pool
\* that is neither displayed nor saved
ColdReplacement(s, shown) ==
    LET available ==
            SelectSeq(getInitialBandsPool(s.artists),
                      LAMBDA id : ~Includes(shown, id)
                                  /\ ~IsSaved(s.toListenList, id))
    IN  IF Len(available) > 0
        THEN [list |-> <<available[RandomIndex(s.rng, Len(available)) + 1]>>,
              rng |-> NextRng(s.rng), pool |-> available]
        ELSE [list |-> <<>>, rng |-> s.rng, pool |-> available]

\* the replacement drawn from the scored candidates: one of the first
\* Math.min(10, length) of them
ScoredReplacement(s, shown) ==
    LET preferences == getUserPreferences(s.artists, s.userRatings)
        unratedArtists ==
            SelectSeq(s.artists,
                      LAMBDA a : ~IsRated(s.userRatings, a.id)
                                 /\ ~IsSaved(s.toListenList, a.id)
                                 /\ ~Includes(shown, a.id))
        n == Len(unratedArtists)
        scoredArtists ==
            SortByScore(ScoreAll(unratedArtists, preferences, s.rng))
        x == RngAfter(s.rng, n)
    IN  IF n > 0
        THEN [list |-> <<scoredArtists[
                           RandomIndex(x, Min(ReplacementTop, n)) + 1].id>>,
              rng |-> NextRng(x), pool |-> scoredArtists]
        ELSE [list |-> <<>>, rng |-> s.rng, pool |-> scoredArtists]

removeRecommendation(s, artistId) ==
    LET shown == SelectSeq(s.currentRecommendations,
                           LAMBDA id : id # artistId)
        rated == OwnKeys(s.userRatings)
        r == IF Len(rated) = 0 THEN ColdReplacement(s, shown)
             ELSE ScoredReplacement(s, shown)
    IN  [s EXCEPT !.currentRecommendations = shown \o r.list,
                  !.rng = r.rng,
                  !.obs = [@ EXCEPT !.removed = <<artistId>>,
                                    !.appended = r.list,
                                    !.shownBefore = s.currentRecommendations,
                                    !.shownAfter = shown \o r.list,
                                    !.pool = r.pool,
                                    !.branch = IF Len(rated) = 0 THEN "cold"
                                               ELSE "scored"]]

---------------------------------------------------------------------------
(* Ratings, custom artists, the to-listen list, clearing *)

\* faulty variant: an artist rated before keeps the earlier rating
rateArtistOnce(s, artistId, rating) ==
    saveToStorage(
        [s EXCEPT !.userRatings =
            [k \in DOMAIN s.userRatings \cup {artistId} |->
                IF k \in DOMAIN s.userRatings
                THEN s.userRatings[k]
                ELSE [rating |-> rating, timestamp |-> s.now]]])

rateArtist(s, artistId, rating) ==
    saveToStorage(
        [s EXCEPT !.userRatings =
            [k \in DOMAIN s.userRatings \cup {artistId} |->
                IF k = artistId
                THEN [rating |-> rating, timestamp |-> s.now]
                ELSE s.userRatings[k]]])

addCustomArtist(s, rating) ==
    LET customId == CustomBase + s.now
        customArtist == [id |-> customId, genres |-> <<"user-added">>,
                         themes |-> <<"custom">>, styles |-> <<"personal">>,
                         era |-> "2020s"]
    IN  generateRecommendations(
            rateArtist([s EXCEPT !.artists = Append(@, customArtist)],
                       customId, rating))

\* faulty variant: the entry is pushed without looking for the id
addToListenListAgain(s, artistId) ==
    removeRecommendation(
        saveToStorage(
            [s EXCEPT !.toListenList =
                Append(@, [id |-> artistId, timestamp |-> s.now])]),
        artistId)

addToListenList(s, artistId) ==
    IF IsSaved(s.toListenList, artistId) THEN s
    ELSE removeRecommendation(
             saveToStorage(
                 [s EXCEPT !.toListenList =
                     Append(@, [id |-> artistId, timestamp |-> s.now])]),
             artistId)

\* faulty variant: the oldest entry is removed, whatever its id
removeFromListenListOldest(s, artistId) ==
    saveToStorage([s EXCEPT !.toListenList = JsSlice(@, 1, Len(@))])

removeFromListenList(s, artistId) ==
    saveToStorage(
        [s EXCEPT !.toListenList =
            SelectSeq(@, LAMBDA item : item.id # artistId)])

clearStorage(s, confirmed) ==
    IF confirmed
    THEN generateRecommendations(
             [s EXCEPT !.storage = EmptyStorage,
                       !.userRatings = <<>>,
                       !.toListenList = <<>>,
                       !.currentRecommendations = <<>>])
    ELSE s

---------------------------------------------------------------------------
(* Catalogs and stored data the runs start from *)

Artist(id, genres, themes, styles, era) ==
    [id |-> id, genres |-> genres, themes |-> themes, styles |-> styles,
     era |-> era]

\* seven bands of the curated pool (1, 2, 3, 5, 6, 7, 8) and one outside (4)
SmallCatalog ==
    <<Artist(1, <<"rock", "pop">>, <<"love">>, <<"melodic">>, "1960s"),
      Artist(2, <<"rock", "blues">>, <<"myth">>, <<"heavy">>, "1970s"),
      Artist(3, <<"prog">>, <<"alienation">>, <<"atmospheric">>, "1970s"),
      Artist(4, <<"pop">>, <<"love">>, <<"melodic">>, "1980s"),
      Artist(5, <<"folk">>, <<"protest">>, <<"poetic">>, "1960s"),
      Artist(6, <<"rock", "glam">>, <<"alienation">>, <<"melodic">>, "1970s"),
      Artist(7, <<"alt">>, <<"alienation">>, <<"atmospheric">>, "1990s"),
      Artist(8, <<"grunge", "rock">>, <<"alienation">>, <<"heavy">>, "1990s")>>

\* artists.json as fetched: missing or empty, or the small catalog
Catalogs == {<<>>, SmallCatalog}

\* what an earlier session left in localStorage: nothing, or the ratings of
\* band 1 and of a custom artist (custom artists are not stored) ...
StoredRatings ==
    <<[key |-> 1, rating |-> 5, timestamp |-> 0],
      [key |-> CustomBase, rating |-> 1, timestamp |-> 0]>>

\* ... or no rating and band 2 saved for later
StoredToListen == <<<<<<"id", 2>>, <<"timestamp", 0>>>>>>

InitialStorages ==
    {EmptyStorage,
     [ratings |-> [present |-> TRUE, text |-> StoredRatings],
      toListen |-> [present |-> TRUE, text |-> <<>>]],
     [ratings |-> [present |-> TRUE, text |-> <<>>],
      toListen |-> [present |-> TRUE, text |-> StoredToListen]]}

\* the ratings a star click or the add-artist form can give
RatingValues == {3, 5}

---------------------------------------------------------------------------
(* State records *)

NoObs ==
    [cycle |-> "none", returned |-> <<>>, windowBefore |-> <<>>,
     scored |-> <<>>, retries |-> 0, removed |-> <<>>, appended |-> <<>>,
     shownBefore |-> <<>>, shownAfter |-> <<>>, pool |-> <<>>,
     branch |-> "none"]

\* the object and its environment at the start of a handler
This ==
    [artists |-> artists, userRatings |-> userRatings,
     toListenList |-> toListenList,
     currentRecommendations |-> currentRecommendations,
     recentlyShown |-> recentlyShown,
     recommendationCount |-> recommendationCount,
     storage |-> storage, now |-> now, rng |-> rng,
     err |-> "none", ret |-> <<>>, obs |-> NoObs]

\* the object and its environment at the end of a handler
Becomes(result) ==
    \E s \in {result} :
        /\ artists' = s.artists
        /\ userRatings' = s.userRatings
        /\ toListenList' = s.toListenList
        /\ currentRecommendations' = s.currentRecommendations
        /\ recentlyShown' = s.recentlyShown
        /\ recommendationCount' = s.recommendationCount
        /\ storage' = s.storage
        /\ rng' = s.rng
        /\ err' = s.err
        /\ ret' = s.ret
        /\ obs' = s.obs

---------------------------------------------------------------------------
(* The application: start-up and the handlers of the user actions *)

\* the constructor: fields set, init() run up to its await
Init ==
    /\ storage \in InitialStorages
    /\ LET loaded == loadFromStorage(
                        [userRatings |-> <<>>, toListenList |-> <<>>,
                         storage |-> storage])
       IN  /\ userRatings = loaded.userRatings
           /\ toListenList = loaded.toListenList
    /\ artists = <<>>
    /\ currentRecommendations = <<>>
    /\ recentlyShown = <<>>
    /\ recommendationCount = DefaultCount
    /\ now = 0
    /\ rng \in 0..(NSeeds - 1)
    /\ pc = "loading"
    /\ err = "none"
    /\ ret = <<>>
    /\ obs = NoObs
    /\ steps = 0
    /\ arg = <<>>

\* loadArtists settles (with the catalog, or with [] when the fetch fails)
\* and init() goes on to the first generateRecommendations
LoadArtists ==
    /\ pc = "loading"
    /\ \E catalog \in Catalogs :
          Becomes(generateRecommendations([This EXCEPT !.artists = catalog]))
    /\ pc' = "ready"
    /\ UNCHANGED <<now, steps, arg>>

\* faulty variant: the listeners are set up before loadArtists is awaited
ReadyBeforeLoad == steps < MaxSteps

Ready == pc = "ready" /\ steps < MaxSteps

\* two user actions are at least one tick of Date.now() apart
Stepped == steps' = steps + 1 /\ now' = now + 1 /\ UNCHANGED <<pc, arg>>

\* a star of a displayed card is clicked
StarClick ==
    /\ Ready
    /\ \E i \in 1..Len(currentRecommendations), rating \in RatingValues :
          LET id == currentRecommendations[i] IN
          Becomes(generateRecommendations(
                      removeRecommendation(rateArtist(This, id, rating), id)))
    /\ Stepped

\* the trash button of a displayed card
Trash ==
    /\ Ready
    /\ \E i \in 1..Len(currentRecommendations) :
          Becomes(removeRecommendation(This, currentRecommendations[i]))
    /\ Stepped

\* the to-listen button of a displayed card
Save ==
    /\ Ready
    /\ \E i \in 1..Len(currentRecommendations) :
          Becomes(addToListenList(This, currentRecommendations[i]))
    /\ Stepped

\* the remove button of an entry of the to-listen list
Unsave ==
    /\ Ready
    /\ \E i \in 1..Len(toListenList) :
          Becomes(removeFromListenList(This, toListenList[i].id))
    /\ Stepped

Shuffle ==
    /\ Ready
    /\ Becomes(shuffleRecommendations(This))
    /\ Stepped

\* the add-artist form is submitted with a name and a rating
AddCustom ==
    /\ Ready
    /\ \E rating \in RatingValues : Becomes(addCustomArtist(This, rating))
    /\ Stepped

\* the clear button, the confirm dialog answered either way
Clear ==
    /\ Ready
    /\ \E confirmed \in BOOLEAN : Becomes(clearStorage(This, confirmed))
    /\ Stepped

Next ==
    \/ LoadArtists
    \/ StarClick
    \/ Trash
    \/ Save
    \/ Unsave
    \/ Shuffle
    \/ AddCustom
    \/ Clear

Spec == Init /\ [][Next]_vars

---------------------------------------------------------------------------
(* The recency window over a large catalog: cold-start and personalized     *)
(* cycles interleaved until the window reaches and passes its caps          *)

\* ids 1..BigSize, tags spread by the id
BigCatalog ==
    [i \in 1..BigSize |->
        Artist(i,
               <<<<"rock", "pop", "jazz", "folk">>[(i % 4) + 1]>>,
               <<<<"love", "protest", "myth">>[(i % 3) + 1]>>,
               <<<<"melodic", "heavy">>[(i % 2) + 1]>>,
               <<"1960s", "1970s", "1980s", "1990s", "2000s">>[(i % 5) + 1])]

InitWindow ==
    /\ storage = EmptyStorage
    /\ userRatings = <<>>
    /\ toListenList = <<>>
    /\ artists = <<>>
    /\ currentRecommendations = <<>>
    /\ recentlyShown = <<>>
    /\ recommendationCount = DefaultCount
    /\ now = 0
    /\ rng \in 0..(NSeeds - 1)
    /\ pc = "loading"
    /\ err = "none"
    /\ ret = <<>>
    /\ obs = NoObs
    /\ steps = 0
    /\ arg = <<>>

BigLoad ==
    /\ pc = "loading"
    /\ Becomes(generateRecommendations([This EXCEPT !.artists = BigCatalog]))
    /\ pc' = "ready"
    /\ UNCHANGED <<now, steps, arg>>

CycleReady == pc = "ready" /\ steps < MaxCycles

BigShuffle ==
    /\ CycleReady
    /\ Becomes(shuffleRecommendations(This))
    /\ Stepped

\* the first rating: five stars on the first card
BigStarClick ==
    /\ CycleReady
    /\ userRatings = <<>>
    /\ currentRecommendations # <<>>
    /\ LET id == currentRecommendations[1] IN
       Becomes(generateRecommendations(
                   removeRecommendation(rateArtist(This, id, 5), id)))
    /\ Stepped

\* the data is cleared (confirmed) once a rating exists
BigClear ==
    /\ CycleReady
    /\ userRatings # <<>>
    /\ Becomes(clearStorage(This, TRUE))
    /\ Stepped

NextWindow == BigLoad \/ BigShuffle \/ BigStarClick \/ BigClear

SpecWindow == InitWindow /\ [][NextWindow]_vars

---------------------------------------------------------------------------
(* Cold-start draws one after the other over a pool of twenty bands; arg    *)
(* counts the times getInitialBands has cleared the window and started again *)

\* an artist with the given id, tags as in the large catalog
PoolArtist(i) == BigCatalog[(i % BigSize) + 1]

\* the first bands of the curated pool, and two artists outside it
PoolBands ==
    [i \in 1..ExamplePoolSize |->
        [PoolArtist(popularBandIds[i]) EXCEPT !.id = popularBandIds[i]]]

OtherArtists == <<[PoolArtist(4) EXCEPT !.id = 4],
                  [PoolArtist(17) EXCEPT !.id = 17]>>

PoolCatalogs == {PoolBands \o SubSeq(OtherArtists, 1, k) : k \in 0..2}

InitPool ==
    /\ storage = EmptyStorage
    /\ userRatings = <<>>
    /\ toListenList = <<>>
    /\ artists = <<>>
    /\ currentRecommendations = <<>>
    /\ recentlyShown = <<>>
    /\ recommendationCount = DefaultCount
    /\ now = 0
    /\ rng \in 0..(RngMod - 1)
    /\ pc = "loading"
    /\ err = "none"
    /\ ret = <<>>
    /\ obs = NoObs
    /\ steps = 0
    /\ arg = 0

\* init(): the catalog arrives and the first draw is made
PoolLoad ==
    /\ pc = "loading"
    /\ \E catalog \in PoolCatalogs :
          Becomes(generateRecommendations([This EXCEPT !.artists = catalog]))
    /\ pc' = "ready"
    /\ arg' = arg + obs'.retries
    /\ UNCHANGED <<now, steps>>

\* the shuffle button: the next draw
PoolShuffle ==
    /\ pc = "ready"
    /\ steps < MaxDraws
    /\ Becomes(shuffleRecommendations(This))
    /\ arg' = arg + obs'.retries
    /\ steps' = steps + 1
    /\ now' = now + 1
    /\ UNCHANGED pc

NextPool == PoolLoad \/ PoolShuffle

SpecPool == InitPool /\ [][NextPool]_vars

---------------------------------------------------------------------------
(* The shuffle button pressed again and again over a catalog a little       *)
(* larger than the window, until the personalized selection runs out of     *)
(* artists that were not shown recently                                      *)

MidCatalog == SubSeq(BigCatalog, 1, MidSize)

InitShuffle ==
    /\ storage = EmptyStorage
    /\ userRatings = <<>>
    /\ toListenList = <<>>
    /\ artists = <<>>
    /\ currentRecommendations = <<>>
    /\ recentlyShown = <<>>
    /\ recommendationCount = DefaultCount
    /\ now = 0
    /\ rng \in 0..(RngMod - 1)
    /\ pc = "loading"
    /\ err = "none"
    /\ ret = <<>>
    /\ obs = NoObs
    /\ steps = 0
    /\ arg = <<>>

MidLoad ==
    /\ pc = "loading"
    /\ Becomes(generateRecommendations([This EXCEPT !.artists = MidCatalog]))
    /\ pc' = "ready"
    /\ UNCHANGED <<now, steps, arg>>

\* the first rating: a star of the first card
FirstStarClick ==
    /\ pc = "ready"
    /\ userRatings = <<>>
    /\ currentRecommendations # <<>>
    /\ \E rating \in RatingValues :
          LET id == currentRecommendations[1] IN
          Becomes(generateRecommendations(
                      removeRecommendation(rateArtist(This, id, rating), id)))
    /\ Stepped

\* the shuffle button once a rating exists
ShuffleAgain ==
    /\ pc = "ready"
    /\ userRatings # <<>>
    /\ steps < MaxShuffles
    /\ Becomes(shuffleRecommendations(This))
    /\ Stepped

NextShuffle == MidLoad \/ FirstStarClick \/ ShuffleAgain

SpecShuffle == InitShuffle /\ [][NextShuffle]_vars

---------------------------------------------------------------------------
(* selectRecommendations on its own: the scored list, the window, the      *)
(* requested count and the generator are drawn, then the method is called  *)

\* the list of the ids lo..hi
IdRange(lo, hi) == [i \in 1..(hi - lo + 1) |-> lo + i - 1]

\* k candidates with ids 1..k, scores descending as the caller's sort leaves
\* them
ScoredList(k) ==
    [i \in 1..k |-> [id |-> i, score |-> (MaxCandidates + 1 - i) * RngMod]]

ScoredLists == {ScoredList(k) : k \in 0..MaxCandidates}

\* windows holding the first or the last ids (and ids that are no candidate)
PartWindows ==
    {IdRange(1, hi) : hi \in 0..(MaxCandidates + 2)}
    \cup {IdRange(lo, MaxCandidates + 2) : lo \in 1..(MaxCandidates + 2)}

\* windows filled up to the cap, holding all, some or none of the candidates
FullWindows ==
    {IdRange(lo, lo + WindowCap - 1) :
        lo \in {1, MaxCandidates \div 2, MaxCandidates + 1}}

Windows == PartWindows \cup FullWindows

InitSelect ==
    /\ arg \in ScoredLists
    /\ recentlyShown \in Windows
    /\ recommendationCount \in 0..MaxCount
    /\ rng \in 0..(RngMod - 1)
    /\ storage = EmptyStorage
    /\ userRatings = <<>>
    /\ toListenList = <<>>
    /\ artists = <<>>
    /\ currentRecommendations = <<>>
    /\ now = 0
    /\ pc = "call"
    /\ err = "none"
    /\ ret = <<>>
    /\ obs = NoObs
    /\ steps = 0

SelectCall ==
    /\ pc = "call"
    /\ Becomes(selectRecommendations(This, arg))
    /\ pc' = "done"
    /\ UNCHANGED <<now, steps, arg>>

NextSelect == SelectCall

SpecSelect == InitSelect /\ [][NextSelect]_vars

---------------------------------------------------------------------------
(* The two selections called with a requested count that is not positive   *)

InitCount ==
    /\ arg \in ScoredLists
    /\ recentlyShown \in Windows
    /\ recommendationCount \in (0 - MaxNegative)..0
    /\ artists \in Catalogs
    /\ rng \in 0..(NSeeds - 1)
    /\ storage = EmptyStorage
    /\ userRatings = <<>>
    /\ toListenList = <<>>
    /\ currentRecommendations = <<>>
    /\ now = 0
    /\ pc = "call"
    /\ err = "none"
    /\ ret = <<>>
    /\ obs = NoObs
    /\ steps = 0

CountSelectCall ==
    /\ pc = "call"
    /\ Becomes(selectRecommendations(This, arg))
    /\ pc' = "done"
    /\ UNCHANGED <<now, steps, arg>>

CountDrawCall ==
    /\ pc = "call"
    /\ Becomes(getInitialBands(This))
    /\ pc' = "done"
    /\ UNCHANGED <<now, steps, arg>>

NextCount == CountSelectCall \/ CountDrawCall

SpecCount == InitCount /\ [][NextCount]_vars

---------------------------------------------------------------------------
(* getUserPreferences on its own: the catalog and the rating history are   *)
(* drawn, then the method is called                                        *)

\* the catalog of the example: A and C are rock, B is pop
ExampleCatalog ==
    <<Artist(1, <<"rock">>, <<>>, <<>>, "1960s"),
      Artist(2, <<"pop">>, <<>>, <<>>, "1980s"),
      Artist(3, <<"rock">>, <<>>, <<>>, "1960s")>>

PrefCatalogs == Catalogs \cup {ExampleCatalog}

\* the rated ids: three bands and a custom artist no catalog holds
PrefIds == {1, 2, 3, CustomBase}

PrefRatings == {1, 3, 5}

RatingHistories ==
    UNION {[S -> [rating : PrefRatings, timestamp : {0}]] :
              S \in SUBSET PrefIds}

InitPrefs ==
    /\ artists \in PrefCatalogs
    /\ userRatings \in RatingHistories
    /\ toListenList = <<>>
    /\ currentRecommendations = <<>>
    /\ recentlyShown = <<>>
    /\ recommendationCount = DefaultCount
    /\ storage = EmptyStorage
    /\ now = 0
    /\ rng = 0
    /\ pc = "call"
    /\ err = "none"
    /\ ret = <<>>
    /\ obs = NoObs
    /\ steps = 0
    /\ arg = <<>>

PrefsCall ==
    /\ pc = "call"
    /\ ret' = getUserPreferences(artists, userRatings)
    /\ pc' = "done"
    /\ UNCHANGED <<artists, userRatings, toListenList,
                   currentRecommendations, recentlyShown,
                   recommendationCount, storage, now, rng, err, obs, steps,
                   arg>>

NextPrefs == PrefsCall

SpecPrefs == InitPrefs /\ [][NextPrefs]_vars

---------------------------------------------------------------------------
(* The add-artist form submitted while Date.now() may return the value it
   returned to the previous submission; the other buttons are pressed on
   the cards of custom artists *)

\* six bands of the curated pool
SixCatalog == SelectSeq(SmallCatalog, LAMBDA a : a.id \in {1, 2, 3, 5, 6, 7})

InitCustom == InitWindow

CustomLoad ==
    /\ pc = "loading"
    /\ Becomes(generateRecommendations([This EXCEPT !.artists = SixCatalog]))
    /\ pc' = "ready"
    /\ UNCHANGED <<now, steps, arg>>

CustomReady == pc = "ready" /\ steps < MaxCustomSteps

IsCustom(id) == id >= CustomBase

CustomCards == {i \in 1..Len(currentRecommendations) :
                    IsCustom(currentRecommendations[i])}

\* the form is submitted; the clock has moved on by the next action, or not
SubmitForm ==
    /\ CustomReady
    /\ Len(SelectSeq(artists, LAMBDA a : IsCustom(a.id))) < MaxCustoms
    /\ Becomes(addCustomArtist(This, 5))
    /\ \E elapsed \in {0, 1} : now' = now + elapsed
    /\ steps' = steps + 1
    /\ UNCHANGED <<pc, arg>>

CustomClear ==
    /\ CustomReady
    /\ Becomes(clearStorage(This, TRUE))
    /\ Stepped

\* five stars on the first card
CustomStarClick ==
    /\ CustomReady
    /\ currentRecommendations # <<>>
    /\ LET id == currentRecommendations[1] IN
       Becomes(generateRecommendations(
                   removeRecommendation(rateArtist(This, id, 5), id)))
    /\ Stepped

CustomTrash ==
    /\ CustomReady
    /\ \E i \in CustomCards :
          Becomes(removeRecommendation(This, currentRecommendations[i]))
    /\ Stepped

CustomSave ==
    /\ CustomReady
    /\ \E i \in CustomCards :
          Becomes(addToListenList(This, currentRecommendations[i]))
    /\ Stepped

NextCustom ==
    \/ CustomLoad
    \/ SubmitForm
    \/ CustomClear
    \/ CustomStarClick
    \/ CustomTrash
    \/ CustomSave

SpecCustom == InitCustom /\ [][NextCustom]_vars

---------------------------------------------------------------------------
(* The methods called one at a time with ids of every kind: displayed or
   not, saved or not, rated or not, in the catalog or not *)

\* band 1 (rated in one stored history), band 2 (saved in another), and an
\* id no artist of the catalog has
CallIds == {1, 2, 9}

CallReady == pc = "ready" /\ steps < MaxCalls

\* the call made is kept in arg
Called(call) ==
    /\ arg' = call
    /\ steps' = steps + 1
    /\ now' = now + 1
    /\ UNCHANGED pc

RemoveCall ==
    /\ CallReady
    /\ \E id \in CallIds :
          Becomes(removeRecommendation(This, id))
          /\ Called(<<"removeRecommendation", id>>)

SaveCall ==
    /\ CallReady
    /\ \E id \in CallIds :
          Becomes(addToListenList(This, id))
          /\ Called(<<"addToListenList", id>>)

UnsaveCall ==
    /\ CallReady
    /\ \E id \in CallIds :
          Becomes(removeFromListenList(This, id))
          /\ Called(<<"removeFromListenList", id>>)

RateCall ==
    /\ CallReady
    /\ \E id \in CallIds, rating \in RatingValues :
          Becomes(rateArtist(This, id, rating))
          /\ Called(<<"rateArtist", id, rating>>)

NextCalls ==
    \/ LoadArtists
    \/ RemoveCall
    \/ SaveCall
    \/ UnsaveCall
    \/ RateCall

SpecCalls == Init /\ [][NextCalls]_vars

----------------------------------------------------------------------------
(* The clear button after the user actions of a session; arg keeps the      *)
(* answer given to the confirm dialog                                       *)

\* the clear button is clicked and confirm() returns the answer
ClearCall ==
    /\ Ready
    /\ \E confirmed \in BOOLEAN :
          Becomes(clearStorage(This, confirmed))
          /\ Called(<<"clearStorage", confirmed>>)

NextClear ==
    \/ LoadArtists
    \/ StarClick
    \/ Save
    \/ Shuffle
    \/ AddCustom
    \/ ClearCall

SpecClear == Init /\ [][NextClear]_vars

----------------------------------------------------------------------------
(* The page reloaded in the middle of a session with custom artists; arg    *)
(* keeps the profile getUserPreferences computed just before the reload     *)

\* a new MusicRecommender is constructed over the same localStorage: the
\* fields are set anew, init() reads the stored data and awaits loadArtists
Reload ==
    /\ CustomReady
    /\ LET loaded == loadFromStorage(
                        [userRatings |-> <<>>, toListenList |-> <<>>,
                         storage |-> storage])
       IN  /\ userRatings' = loaded.userRatings
           /\ toListenList' = loaded.toListenList
    /\ artists' = <<>>
    /\ currentRecommendations' = <<>>
    /\ recentlyShown' = <<>>
    /\ recommendationCount' = DefaultCount
    /\ pc' = "loading"
    /\ err' = "none"
    /\ ret' = <<>>
    /\ obs' = NoObs
    /\ arg' = <<"reload", getUserPreferences(artists, userRatings)>>
    /\ steps' = steps + 1
    /\ now' = now + 1
    /\ UNCHANGED <<storage, rng>>

NextReload ==
    \/ CustomLoad
    \/ SubmitForm
    \/ CustomStarClick
    \/ Reload

SpecReload == InitCustom /\ [][NextReload]_vars

---------------------------------------------------------------------------
(* calculateArtistScore on its own: the candidate, the profile and the      *)
(* generator are drawn, then the method is called                           *)

\* an artist as addCustomArtist makes it, its tags in no loaded artist
CustomArtist(t) ==
    Artist(CustomBase + t, <<"user-added">>, <<"custom">>, <<"personal">>,
           "2020s")

\* the candidates: every artist of the catalogs, and a custom artist
Candidates ==
    Range(SmallCatalog) \cup Range(ExampleCatalog) \cup {CustomArtist(0)}

\* the rating histories the profiles are aggregated from: ratings 1 and 5
ScoreHistories ==
    UNION {[S -> [rating : {1, 5}, timestamp : {0}]] : S \in SUBSET PrefIds}

\* the profiles: getUserPreferences of a history over a catalog
Profiles ==
    {getUserPreferences(catalog, history) :
        catalog \in PrefCatalogs, history \in ScoreHistories}

InitScore ==
    /\ arg \in [artist : Candidates, preferences : Profiles]
    /\ rng \in 0..(RngMod - 1)
    /\ artists = <<>>
    /\ userRatings = <<>>
    /\ toListenList = <<>>
    /\ currentRecommendations = <<>>
    /\ recentlyShown = <<>>
    /\ recommendationCount = DefaultCount
    /\ storage = EmptyStorage
    /\ now = 0
    /\ pc = "call"
    /\ err = "none"
    /\ ret = 0
    /\ obs = NoObs
    /\ steps = 0

ScoreCall ==
    /\ pc = "call"
    /\ ret' = calculateArtistScore(arg.artist, arg.preferences, rng)
    /\ rng' = NextRng(rng)
    /\ pc' = "done"
    /\ UNCHANGED <<artists, userRatings, toListenList,
                   currentRecommendations, recentlyShown,
                   recommendationCount, storage, now, err, obs, steps, arg>>

NextScore == ScoreCall

SpecScore == InitScore /\ [][NextScore]_vars

---------------------------------------------------------------------------
(* Properties *)

\* the ids of a list of records
Ids(seq) == {seq[i].id : i \in 1..Len(seq)}

\* no id occurs twice in the list
Distinct(seq) == \A i, j \in 1..Len(seq) : seq[i] = seq[j] => i = j

\* the ids of the rated artists
RatedIds == DOMAIN userRatings

\* the ids of the saved artists
SavedIds == Ids(toListenList)

\* C1: no artist whose id is a key of userRatings is in the list a
\* recommendation cycle produces, and none is appended as the replacement
\* by removeRecommendation.
C1_RatedNeverRecommended ==
    /\ obs.cycle # "none" => Range(obs.returned) \cap RatedIds = {}
    /\ Range(obs.appended) \cap RatedIds = {}

\* a star click: the rated card is replaced and a personalized list produced
C1_Witness ==
    /\ obs.cycle = "personal"
    /\ obs.removed # <<>>
    /\ obs.appended # <<>>
    /\ Range(obs.removed) \subseteq RatedIds
    /\ Len(obs.returned) = DefaultCount

\* C2: no artist whose id is in toListenList is returned by a personalized
\* cycle or by a cold-start draw, and none is appended as the replacement by
\* removeRecommendation, in either branch.
C2_SavedNeverRecommended ==
    /\ obs.cycle # "none" => Range(obs.returned) \cap SavedIds = {}
    /\ Range(obs.appended) \cap SavedIds = {}

\* an artist is saved from its card and the card is replaced
C2_Witness ==
    /\ obs.removed # <<>>
    /\ Range(obs.removed) \subseteq SavedIds
    /\ obs.appended # <<>>
    /\ Len(toListenList) >= 1

\* C3: right after a cold-start draw the window holds at most 18 ids, right
\* after a personalized selection at most 24, however the two kinds of cycle
\* interleave.
C3_WindowWithinCap ==
    /\ obs.cycle = "cold" => Len(recentlyShown) <= 18
    /\ obs.cycle = "personal" => Len(recentlyShown) <= 24

\* a cold-start draw after clearing, on a window personalized cycles filled
\* to 24 ids: it is cut back to 18
C3_Witness ==
    /\ obs.cycle = "cold"
    /\ Len(obs.windowBefore) = 24
    /\ obs.retries = 0
    /\ Len(obs.returned) = DefaultCount
    /\ Len(recentlyShown) = 18

\* C4: every call of getInitialBands terminates and clears the window and
\* retries at most once.
C4_InitialBandsTerminates ==
    obs.cycle = "cold" => err = "none" /\ obs.retries <= 1

\* C5: with an empty catalog every recommendation cycle completes without an
\* exception and leaves currentRecommendations empty.
C5_EmptyCatalogNoException ==
    (pc = "ready" /\ artists = <<>>) =>
        err = "none" /\ currentRecommendations = <<>>

\* C6: for a scored list with pairwise distinct ids selectRecommendations
\* returns exactly min(recommendationCount, number of candidates) entries,
\* all of the list, with pairwise distinct ids.
C6_SelectCountDistinct ==
    (pc = "done" /\ Distinct(IdSeq(arg))) =>
        /\ Len(obs.returned) = Min(recommendationCount, Len(arg))
        /\ Range(obs.returned) \subseteq Ids(arg)
        /\ Distinct(obs.returned)

\* six of at least ten candidates, the window holding some of them
C6_Witness ==
    /\ pc = "done"
    /\ recommendationCount = 6
    /\ Len(arg) >= 10
    /\ obs.windowBefore # <<>>
    /\ Len(obs.returned) = 6
    /\ Distinct(obs.returned)

\* the bands of the curated pool a cold-start draw may take when the window
\* is `window`: in the catalog, not rated, not saved, not in the window
EligibleBands(window) ==
    {id \in Range(popularBandIds) :
        /\ id \in Ids(artists)
        /\ id \notin RatedIds
        /\ id \notin SavedIds
        /\ id \notin Range(window)}

\* the window at the time of the draw: cleared when the call retried
DrawWindow == IF obs.retries = 0 THEN obs.windowBefore ELSE <<>>

\* C7: a cold-start draw that finds at least recommendationCount eligible
\* bands returns exactly recommendationCount pairwise distinct bands, each
\* eligible at the time of the draw (in the pool and the catalog, not saved,
\* not in the window); with exactly recommendationCount eligible bands it
\* returns each of them once.
C7_ColdDraw ==
    (obs.cycle = "cold" /\ userRatings = <<>>) =>
        /\ Cardinality(EligibleBands(obs.windowBefore)) >= recommendationCount
              => err = "none" /\ obs.retries = 0
        /\ err = "none" =>
              /\ Len(obs.returned) = recommendationCount
              /\ Distinct(obs.returned)
              /\ Range(obs.returned) \subseteq EligibleBands(DrawWindow)
              /\ Cardinality(EligibleBands(DrawWindow)) = recommendationCount
                    => Range(obs.returned) = EligibleBands(DrawWindow)

\* a first draw with exactly six eligible bands, and a later draw that has to
\* leave the window's bands out
C7_Witness ==
    /\ obs.cycle = "cold"
    /\ err = "none"
    /\ obs.retries = 0
    /\ Cardinality(EligibleBands(obs.windowBefore)) = recommendationCount
    /\ Range(obs.returned) = EligibleBands(obs.windowBefore)
    /\ toListenList # <<>>

\* the sum of the ratings of the catalog artists with the indexes I
RECURSIVE SumRatings(_)
SumRatings(I) ==
    IF I = {} THEN 0
    ELSE LET i == CHOOSE i \in I : TRUE
         IN  userRatings[artists[i].id].rating + SumRatings(I \ {i})

\* the indexes of the rated catalog artists
RatedArtists == {i \in 1..Len(artists) : artists[i].id \in RatedIds}

\* the tags some catalog artist carries in the tag list `field`
TagsOf(field) == UNION {Range(artists[i][field]) : i \in 1..Len(artists)}

\* the weight of every tag of the tag list `field` is the sum of the ratings
\* of the rated catalog artists carrying it, and no other tag has a weight
TagWeightsAreSums(map, field) ==
    /\ \A tag \in TagsOf(field) :
          WeightOf(map, tag) =
              SumRatings({i \in RatedArtists :
                             Includes(artists[i][field], tag)})
    /\ DOMAIN map \subseteq TagsOf(field)

\* C8: getUserPreferences gives every genre, theme and style tag the sum of
\* the ratings of the rated catalog artists carrying it, and every era the
\* sum of the ratings of the rated catalog artists of that era.
C8_WeightsAreRatingSums ==
    pc = "done" =>
        /\ TagWeightsAreSums(ret.genres, "genres")
        /\ TagWeightsAreSums(ret.themes, "themes")
        /\ TagWeightsAreSums(ret.styles, "styles")
        /\ \A i \in 1..Len(artists) :
              WeightOf(ret.eras, artists[i].era) =
                  SumRatings({j \in RatedArtists :
                                 artists[j].era = artists[i].era})
        /\ DOMAIN ret.eras \subseteq {artists[i].era : i \in 1..Len(artists)}

\* the example: ratings {A: 5, B: 3}, A and C rock, B pop
C8_Witness ==
    /\ pc = "done"
    /\ artists = ExampleCatalog
    /\ RatedIds = {1, 2}
    /\ userRatings[1].rating = 5
    /\ userRatings[2].rating = 3
    /\ ret.genres["rock"] = 5
    /\ ret.genres["pop"] = 3

\* the sum of the ratings of the entries with the keys K
RECURSIVE SumEntries(_)
SumEntries(K) ==
    IF K = {} THEN 0
    ELSE LET k == CHOOSE k \in K : TRUE
         IN  userRatings[k].rating + SumEntries(K \ {k})

\* C9: the mean rating of the profile is the sum of all rating values of
\* userRatings divided by the number of its entries, whether or not the
\* rated id is in the catalog.
C9_MeanOverAllEntries ==
    (pc = "done" /\ RatedIds # {}) =>
        ret.averageRating = JsDiv(SumEntries(RatedIds), Cardinality(RatedIds))

\* C10: with an empty userRatings the profile has no non-zero genre, theme,
\* style or era weight and its mean rating is 0.
C10_EmptyHistoryZeroProfile ==
    (pc = "done" /\ userRatings = <<>>) =>
        /\ \A tag \in TagsOf("genres") \cup DOMAIN ret.genres :
              WeightOf(ret.genres, tag) = 0
        /\ \A tag \in TagsOf("themes") \cup DOMAIN ret.themes :
              WeightOf(ret.themes, tag) = 0
        /\ \A tag \in TagsOf("styles") \cup DOMAIN ret.styles :
              WeightOf(ret.styles, tag) = 0
        /\ \A era \in {artists[i].era : i \in 1..Len(artists)}
                      \cup DOMAIN ret.eras :
              WeightOf(ret.eras, era) = 0
        /\ ret.averageRating = Zero

\* the profile of an empty history over a catalog that has artists
C10_Witness ==
    /\ pc = "done"
    /\ userRatings = <<>>
    /\ artists = SmallCatalog
    /\ ret.averageRating = Zero
    /\ ret.genres = <<>>

\* the weight the profile map gives a tag, 0 for a tag it does not hold
ProfileWeight(map, tag) == IF tag \in DOMAIN map THEN map[tag] ELSE 0

\* the sum of the profile weights of the tags at the positions I of a list
RECURSIVE SumWeights(_, _, _)
SumWeights(map, tags, I) ==
    IF I = {} THEN 0
    ELSE LET i == CHOOSE i \in I : TRUE
         IN  ProfileWeight(map, tags[i]) + SumWeights(map, tags, I \ {i})

\* d: 3 * genres + 2 * themes + 2 * styles + 1 * era
Similarity(artist, preferences) ==
    3 * SumWeights(preferences.genres, artist.genres,
                   DOMAIN artist.genres)
    + 2 * SumWeights(preferences.themes, artist.themes,
                     DOMAIN artist.themes)
    + 2 * SumWeights(preferences.styles, artist.styles,
                     DOMAIN artist.styles)
    + ProfileWeight(preferences.eras, artist.era)

\* C11: calculateArtistScore returns d + r, d the weighted sum of the
\* profile weights of the candidate's tags (3 genres, 2 themes, 2 styles,
\* 1 era; a tag absent from the profile counts 0) and 0 <= r < 10, so the
\* score is never negative.  Scores are in units of 1/RngMod.
C11_ScoreIsSimilarityPlusRandom ==
    pc = "done" =>
        LET r == ret - Similarity(arg.artist, arg.preferences) * RngMod
        IN  /\ 0 <= r
            /\ r < 10 * RngMod
            /\ ret >= 0

\* a candidate with a genre and a theme the profile holds and a style it does
\* not hold, scored with a random term that is not 0
C11_Witness ==
    /\ pc = "done"
    /\ \E i \in DOMAIN arg.artist.genres :
          ProfileWeight(arg.preferences.genres, arg.artist.genres[i]) > 0
    /\ \E i \in DOMAIN arg.artist.themes :
          ProfileWeight(arg.preferences.themes, arg.artist.themes[i]) > 0
    /\ \E i \in DOMAIN arg.artist.styles :
          arg.artist.styles[i] \notin DOMAIN arg.preferences.styles
    /\ ret > Similarity(arg.artist, arg.preferences) * RngMod

\* the card removeRecommendation was called for was on display
Dismissed ==
    /\ obs.removed # <<>>
    /\ obs.removed[1] \in Range(obs.shownBefore)

\* the cards left on display once the dismissed one is taken away
StillShown == SelectSeq(obs.shownBefore, LAMBDA id : id # obs.removed[1])

\* the catalog entries that are unrated, unsaved and not on display
EligiblePool ==
    {i \in 1..Len(artists) :
        artists[i].id \notin RatedIds \cup SavedIds \cup Range(StillShown)}

\* C12: with at least one rating, dismissing a displayed artist while the
\* eligible pool is non-empty appends exactly one replacement, the displayed
\* list keeps its length, and fewer than min(10, pool size) eligible
\* candidates are scored higher than the replacement.
C12_ScoredReplacementKeepsLength ==
    (Dismissed /\ RatedIds # {} /\ EligiblePool # {}) =>
        /\ Len(obs.appended) = 1
        /\ Len(obs.shownAfter) = Len(obs.shownBefore)
        /\ Ids(obs.pool) = {artists[i].id : i \in EligiblePool}
        /\ \E k \in 1..Len(obs.pool) :
              /\ obs.pool[k].id = obs.appended[1]
              /\ Cardinality({j \in 1..Len(obs.pool) :
                                 obs.pool[j].score > obs.pool[k].score})
                   < Min(10, Cardinality(EligiblePool))

\* C13: when a displayed recommendation is dismissed and every catalog
\* artist is rated, saved or still displayed, removeRecommendation appends
\* nothing, the displayed list is exactly one item shorter, and no error is
\* raised, with or without ratings.
C13_NoReplacementShrinksByOne ==
    (Dismissed /\ EligiblePool = {}) =>
        /\ obs.appended = <<>>
        /\ Len(obs.shownAfter) = Len(obs.shownBefore) - 1
        /\ err = "none"

\* C14: removeRecommendation called with an id that is not in
\* currentRecommendations changes neither currentRecommendations nor
\* userRatings, toListenList or recentlyShown.
C14_RemoveAbsentIsNoOp ==
    [][(RemoveCall /\ arg'[2] \notin Range(currentRecommendations))
          => UNCHANGED <<currentRecommendations, userRatings, toListenList,
                         recentlyShown>>]_vars

\* C15: removeFromListenList removes exactly the entries with the given id
\* and keeps the others in their order, so that with an id that is not
\* saved the list is unchanged; userRatings, currentRecommendations and
\* recentlyShown are unchanged in both cases.
C15_UnsaveFrame ==
    [][UnsaveCall =>
          /\ toListenList' =
                 SelectSeq(toListenList, LAMBDA item : item.id # arg'[2])
          /\ (arg'[2] \notin SavedIds => toListenList' = toListenList)
          /\ UNCHANGED <<userRatings, currentRecommendations,
                         recentlyShown>>]_vars

\* removeFromListenList was called and another entry is still saved
C15_Witness ==
    /\ arg # <<>>
    /\ arg[1] = "removeFromListenList"
    /\ toListenList # <<>>
    /\ arg[2] \notin SavedIds

\* C16: addToListenList called with an id that is already saved changes
\* neither toListenList, currentRecommendations, userRatings, recentlyShown
\* nor the stored data and raises no error; and toListenList never holds
\* two entries with the same id.
C16_SaveSavedIsNoOp ==
    /\ [][(SaveCall /\ arg'[2] \in SavedIds)
             => /\ UNCHANGED <<toListenList, currentRecommendations,
                               userRatings, recentlyShown, storage>>
                /\ err' = "none"]_vars
    /\ [](Distinct(IdSeq(toListenList)))

\* addToListenList returned at once for an id that was saved already
C16_Witness ==
    /\ arg # <<>>
    /\ arg[1] = "addToListenList"
    /\ arg[2] \in SavedIds
    /\ obs.removed = <<>>

C18_RateFrame ==
    [][RateCall =>
          LET id == arg'[2] IN
          /\ DOMAIN userRatings' = DOMAIN userRatings \cup {id}
          /\ userRatings'[id] = [rating |-> arg'[3], timestamp |-> now]
          /\ \A k \in DOMAIN userRatings \ {id} :
                userRatings'[k] = userRatings[k]
          /\ Cardinality(DOMAIN userRatings') =
                Cardinality(DOMAIN userRatings)
                + (IF id \in DOMAIN userRatings THEN 0 ELSE 1)]_vars

\* band 1, rated 5 in the stored history, has been rated 3
C18_Witness ==
    /\ arg # <<>>
    /\ arg[1] = "rateArtist"
    /\ arg[2] = 1
    /\ CustomBase \in RatedIds
    /\ userRatings[1].rating = 3

\* what a new session reads back from the stored data
Reloaded ==
    loadFromStorage([userRatings |-> <<>>, toListenList |-> <<>>,
                     storage |-> storage])

\* C19: at the end of every user action the stored data is in step with
\* memory: loadFromStorage of a new session yields the same userRatings and
\* the same toListenList, an empty mapping and an empty list once the data
\* has been cleared.
C19_StoredInSync ==
    /\ Reloaded.userRatings = userRatings
    /\ Reloaded.toListenList = toListenList

\* a rating and a saved artist after two user actions, the rating written
\* by the second, and both stored
C19_Witness ==
    /\ steps = 2
    /\ \E id \in RatedIds : userRatings[id].timestamp = 1
    /\ toListenList # <<>>
    /\ storage.ratings.text # <<>>
    /\ storage.toListen.text # <<>>

\* C20: whatever the add-artist form has added, with a clock that never
\* goes back but may stand still, no two artists of the catalog have the
\* same id.
C20_CatalogIdsDistinct == Distinct(IdSeq(artists))

\* C21: right after removeRecommendation(id) for a displayed artist that is
\* neither rated nor saved, id is not in currentRecommendations, with or
\* without ratings.
C21_TrashedNotItsOwnReplacement ==
    (Dismissed /\ obs.removed[1] \notin RatedIds \cup SavedIds) =>
        obs.removed[1] \notin Range(obs.shownAfter)

\* C22: from an empty window, a pool of 20 eligible bands, no rating and no
\* saved artist, four cold-start draws of 6 one after the other make
\* getInitialBands clear the window and start again at least once, and the
\* window holds at most 18 ids after each draw.
C22_FourDrawsForceRetry ==
    /\ steps >= 3 => arg >= 1
    /\ Len(recentlyShown) <= 18

\* the fourth draw: the window had grown to 18 and was cleared
C22_Witness ==
    /\ steps = 3
    /\ Len(obs.windowBefore) = 18
    /\ obs.retries = 1
    /\ Len(obs.returned) = 6
    /\ Len(recentlyShown) = 6

\* userRatings without the entries whose id no catalog artist has
KnownRatings ==
    [k \in DOMAIN userRatings \cap Ids(artists) |-> userRatings[k]]

\* C23: a rating whose artist id is not in the catalog raises no error in
\* getUserPreferences and adds to no weight: the genre, theme, style and
\* era weights are those computed from the ratings of the ids the catalog
\* holds.
C23_UnknownIdsSkipped ==
    pc = "done" =>
        LET known == getUserPreferences(artists, KnownRatings) IN
        /\ err = "none"
        /\ ret.genres = known.genres
        /\ ret.themes = known.themes
        /\ ret.styles = known.styles
        /\ ret.eras = known.eras

\* a history with a rated catalog artist and a rated custom artist that the
\* catalog does not hold
C23_Witness ==
    /\ pc = "done"
    /\ CustomBase \in RatedIds
    /\ CustomBase \notin Ids(artists)
    /\ RatedIds \cap Ids(artists) # {}
    /\ ret.genres # <<>>

\* the candidates handed to selectRecommendations that were outside the
\* window when it was called
FreshCandidates ==
    SelectSeq(obs.scored, LAMBDA a : a.id \notin Range(obs.windowBefore))

\* ceil(0.7 * count) for a count that is not negative
TopShare(count) ==
    CHOOSE top \in 0..count :
        10 * top >= 7 * count /\ 10 * (top - 1) < 7 * count

\* C24: when at least recommendationCount candidates are outside the window,
\* selectRecommendations returns no artist of the window; with fewer
\* candidates outside it the selection is made over the whole scored list,
\* whose head is returned first.
C24_FreshPreferred ==
    pc = "done" =>
        LET count == Min(recommendationCount, Len(obs.scored)) IN
        /\ Len(FreshCandidates) >= recommendationCount =>
              Range(obs.returned) \cap Range(obs.windowBefore) = {}
        /\ Len(FreshCandidates) < recommendationCount =>
              /\ Range(obs.returned) \subseteq Ids(obs.scored)
              /\ \A k \in 1..TopShare(count) :
                    obs.returned[k] = obs.scored[k].id

\* six returned, none from a window that holds some of the candidates
C24_Witness ==
    /\ pc = "done"
    /\ recommendationCount = 6
    /\ Len(FreshCandidates) >= 6
    /\ Len(FreshCandidates) < Len(obs.scored)
    /\ Len(obs.returned) = 6
    /\ Range(obs.returned) \cap Range(obs.windowBefore) = {}

\* the pool selectRecommendations chose: the candidates outside the window
\* if there are at least count of them, else all candidates
ChosenPool(count) ==
    IF Len(FreshCandidates) >= count THEN FreshCandidates ELSE obs.scored

\* C25: with count = min(recommendationCount, number of candidates) and
\* top = ceil(0.7 * count), the first top entries returned are the top
\* highest-scored entries of the chosen pool in descending score order, and
\* the other count - top entries are distinct entries of the rest of the
\* pool.
C25_TopThenRandom ==
    obs.cycle = "personal" =>
        LET count == Min(recommendationCount, Len(obs.scored))
            top == TopShare(count)
            pool == ChosenPool(count)
        IN  /\ Len(obs.returned) = count
            /\ \A k \in 1..top :
                  /\ obs.returned[k] = pool[k].id
                  /\ \A j \in (k + 1)..Len(pool) :
                        pool[k].score >= pool[j].score
            /\ \A k \in (top + 1)..count :
                  /\ \E j \in (top + 1)..Len(pool) :
                        obs.returned[k] = pool[j].id
                  /\ \A m \in (top + 1)..count :
                        obs.returned[m] = obs.returned[k] => m = k

\* six of a large pool: the five best and one of the others, not the sixth
\* best
C25_Witness ==
    /\ pc = "done"
    /\ recommendationCount = 6
    /\ Len(ChosenPool(6)) >= 10
    /\ \A k \in 1..5 : obs.returned[k] = ChosenPool(6)[k].id
    /\ Len(obs.returned) = 6
    /\ obs.returned[6] # ChosenPool(6)[6].id

\* the entries of a list without those that occurred earlier in it
FirstOccurrences(seq) ==
    LET S == {i \in 1..Len(seq) : \A j \in 1..(i - 1) : seq[j] # seq[i]}
        Pick[k \in 0..Len(seq)] ==
            IF k = 0 THEN <<>>
            ELSE IF k \in S THEN Append(Pick[k - 1], seq[k])
            ELSE Pick[k - 1]
    IN  Pick[Len(seq)]

\* the last n entries of a list
LastN(seq, n) == SubSeq(seq, Max(1, Len(seq) - n + 1), Len(seq))

WholeCatalog ==
    \E catalog \in Catalogs :
        /\ Len(artists) >= Len(catalog)
        /\ SubSeq(artists, 1, Len(catalog)) = catalog
        /\ \A i \in (Len(catalog) + 1)..Len(artists) : IsCustom(artists[i].id)

\* C27: while loadArtists has not settled no recommendation cycle and no
\* handler of a user action has run; every cycle and every handler that has
\* run found the catalog whole, as fetched (or empty, the fetch having
\* failed), never a part of it.
C27_NothingRunsBeforeLoad ==
    /\ pc = "loading" =>
          /\ obs = NoObs
          /\ steps = 0
          /\ artists = <<>>
          /\ currentRecommendations = <<>>
          /\ recentlyShown = <<>>
    /\ (obs # NoObs \/ steps > 0) => (pc = "ready" /\ WholeCatalog)

\* the catalog has arrived, a custom artist was added and a personalized
\* cycle has scored the catalog
C27_Witness ==
    /\ pc = "ready"
    /\ Len(artists) = Len(SmallCatalog) + 1
    /\ obs.cycle = "personal"
    /\ Len(obs.scored) >= 6

\* the catalog artists that may be recommended and are outside the window
FreshEligible ==
    {i \in 1..Len(artists) :
        artists[i].id \notin RatedIds \cup SavedIds \cup Range(recentlyShown)}

C29_DisplayedListSound ==
    /\ Len(currentRecommendations) <= recommendationCount
    /\ Distinct(currentRecommendations)
    /\ Range(currentRecommendations) \cap (RatedIds \cup SavedIds) = {}

\* C30: right after selectRecommendations or getInitialBands has returned,
\* every id of the returned list is in recentlyShown, also when the
\* selection fell back to the whole scored list and the window was cut.
C30_ReturnedInWindow ==
    obs.cycle # "none" => Range(obs.returned) \subseteq Range(recentlyShown)

\* C31: a confirmed clearStorage empties userRatings and toListenList, keeps
\* every artist of the catalog, hands the window as it was to the cycle that
\* follows, and that cycle is a cold-start draw whose result becomes
\* currentRecommendations; a declined one leaves userRatings, toListenList,
\* currentRecommendations, recentlyShown, the catalog and the stored data as
\* they were.
C31_ClearFrame ==
    [][ClearCall =>
          IF arg'[2]
          THEN /\ userRatings' = <<>>
               /\ toListenList' = <<>>
               /\ artists' = artists
               /\ obs'.cycle = "cold"
               /\ obs'.windowBefore = recentlyShown
               /\ err' = "none"
               /\ currentRecommendations' = obs'.returned
          ELSE UNCHANGED <<userRatings, toListenList, currentRecommendations,
                           recentlyShown, artists, storage>>]_vars

\* C32: when the catalog of a session started by a reload has loaded,
\* getUserPreferences yields the profile (tag weights, era weights, mean
\* rating) it yielded just before the reload.
C32_ProfileSurvivesReload ==
    [][(CustomLoad /\ arg # <<>>) =>
          getUserPreferences(artists', userRatings') = arg[2]]_vars

====
